---- MODULE Spec2Model ----
(***************************************************************************)
(* Model of the PMC PDF retriever (src/streamlit/app.py): the PDF          *)
(* validator, the archive/compression unwrappers, the retrying download    *)
(* orchestrator download_pdf, the article resolver and the pipeline driver *)
(* that runs when "Search and Download" is pressed.                        *)
(*                                                                         *)
(* Files are byte strings.  A byte string is kept as head ++ filler^pad ++ *)
(* tail so that a 5000-byte file is a small value; every read of the code  *)
(* (read(5), seek(-10, 2), read(10), raw[:2]) is computed byte by byte on  *)
(* that string.  The local disk is taken to be reliable (open/remove of a  *)
(* file under the output folder do not fail); the network is not.  Record  *)
(* ids are unique within one search result.  The display of the acquired   *)
(* files (lines 178-204) only reads the state and is left out.             *)
(***************************************************************************)
EXTENDS Integers, Sequences, FiniteSets, TLC

\* ------------------------------------------------------------------ bounds
MaxIds == 2          \* longest id list the search returns
MaxPdfsInput == 2    \* largest value entered for "Max PDFs to download"
MaxRuns == 2         \* button presses in one session
MaxRetriesArg == 3   \* largest retries argument tried on download_pdf

\* --------------------------------------------------------------- constants
MIN_PDF_SIZE == 5000
HEADER_LEN == 5
FOOTER_LEN == 10
DEFAULT_RETRIES == 3
PDF_HEADER == <<37, 80, 68, 70, 45>>      \* b"%PDF-"
EOF_MARKER == <<37, 37, 69, 79, 70>>      \* b"%%EOF"
GZIP_MAGIC == <<31, 139>>                 \* b"\x1f\x8b"

\* Python's None, and the "no such file" entry of the file system.
None == [kind |-> "none"]
Absent == [kind |-> "absent"]

Min(a, b) == IF a < b THEN a ELSE b
Max(a, b) == IF a > b THEN a ELSE b

\* ------------------------------------------------------------ byte strings
\* A plain byte string.
Plain(h, p, t) == [kind |-> "plain", head |-> h, pad |-> p, tail |-> t]
\* A gzip stream wrapping `inner`; ok = FALSE is a truncated/corrupt stream.
Gz(inner, ok) == [kind |-> "gzip", inner |-> inner, ok |-> ok]
\* An uncompressed tar archive with the given members, in archive order.
Tar(members) == [kind |-> "tar", members |-> members]
Member(name, ext, data) == [name |-> name, ext |-> ext, data |-> data]

\* The bytes of a value, as head ++ 32^pad ++ tail.
Bytes(c) ==
    IF c.kind = "plain" THEN [head |-> c.head, pad |-> c.pad, tail |-> c.tail]
    ELSE IF c.kind = "gzip"
        THEN [head |-> GZIP_MAGIC \o <<8, 0>>, pad |-> 40, tail |-> <<0, 0, 0, 0>>]
    ELSE \* tar: 512-byte header blocks, data, zero blocks at the end
        [head |-> <<117, 115, 116, 97, 114>>, pad |-> 1019, tail |-> <<0, 0, 0, 0, 0, 0, 0, 0, 0, 0, 0, 0>>]

Size(c) == Len(Bytes(c).head) + Bytes(c).pad + Len(Bytes(c).tail)

ByteAt(c, i) ==
    LET b == Bytes(c) IN
    IF i <= Len(b.head) THEN b.head[i]
    ELSE IF i <= Len(b.head) + b.pad THEN 32
    ELSE b.tail[i - Len(b.head) - b.pad]

\* bytes from..to (1-based, inclusive) of c, clipped to the string
Slice(c, from, to) ==
    LET lo == Max(from, 1)
        hi == Min(to, Size(c))
    IN  IF hi < lo THEN <<>> ELSE [k \in 1..(hi - lo + 1) |-> ByteAt(c, lo + k - 1)]

\* needle in haystack, for Python bytes
Contains(haystack, needle) ==
    \E k \in 0..(Len(haystack) - Len(needle)) :
        SubSeq(haystack, k + 1, k + Len(needle)) = needle

\* ---------------------------------------------------------- PDF validation
is_valid_pdf_no_size_check(file, ioError) ==
    IF file = Absent THEN FALSE
    ELSE IF ioError THEN FALSE
    ELSE IF Size(file) < FOOTER_LEN THEN FALSE
    ELSE LET header == Slice(file, 1, HEADER_LEN)
             footer == Slice(file, Size(file) - FOOTER_LEN + 1, Size(file))
         IN  header = PDF_HEADER /\ Contains(footer, EOF_MARKER)

is_valid_pdf(file, ioError) ==
    IF file = Absent THEN FALSE                       \* not os.path.exists
    ELSE IF ioError THEN FALSE                        \* except: return False
    ELSE IF Size(file) < MIN_PDF_SIZE THEN FALSE
    ELSE IF Size(file) < FOOTER_LEN THEN FALSE        \* seek(-10, 2) raises
    ELSE LET header == Slice(file, 1, HEADER_LEN)
             footer == Slice(file, Size(file) - FOOTER_LEN + 1, Size(file))
         IN  header = PDF_HEADER /\ Contains(footer, EOF_MARKER)

\* --------------------------------------------------------------- unwrappers
\* gzip.decompress(data) inside try/except: the payload, or None
safe_gunzip(data) ==
    IF data.kind = "gzip" /\ data.ok THEN data.inner ELSE None

\* Python truthiness of a bytes-or-None value (b"" and None are falsy)
Truthy(v) == v # None /\ Size(v) > 0

\* (mutant) the last ".pdf" member instead of the first
FirstPdfMember_last(members) ==
    IF \E k \in 1..Len(members) : members[k].ext = ".pdf"
    THEN CHOOSE k \in 1..Len(members) :
            /\ members[k].ext = ".pdf"
            /\ \A j \in (k + 1)..Len(members) : members[j].ext # ".pdf"
    ELSE 0

\* index of the first member whose name ends in ".pdf", 0 if there is none
FirstPdfMember(members) ==
    IF \E k \in 1..Len(members) : members[k].ext = ".pdf"
    THEN CHOOSE k \in 1..Len(members) :
            /\ members[k].ext = ".pdf"
            /\ \A j \in 1..(k - 1) : members[j].ext # ".pdf"
    ELSE 0

\* extract_pdf_from_tar_gz(tar_path, output_path) on the file `archive`:
\* ret is True / False / None as the code returns them, out is the new
\* content of output_path.
extract_pdf_from_tar_gz(archive, old) ==
    IF archive.kind = "gzip" /\ archive.ok /\ archive.inner.kind = "tar"
    THEN LET members == archive.inner.members
             k == FirstPdfMember(members)
         IN  IF k > 0 THEN [ret |-> "True", out |-> members[k].data]
             ELSE [ret |-> "None", out |-> old]       \* loop ends, no return
    ELSE [ret |-> "False", out |-> old]               \* tarfile.open raised

\* ------------------------------------------------------- the outside world
PmcIds == 1..MaxIds

\* every duplicate-free id list of length <= MaxIds (ranked search results)
RECURSIVE IdLists(_)
IdLists(n) ==
    IF n = 0 THEN {<<>>}
    ELSE LET shorter == IdLists(n - 1)
         IN  shorter \cup
             {Append(l, id) : l \in {s \in shorter : Len(s) = n - 1},
                              id \in PmcIds}
SearchResults ==
    {l \in IdLists(MaxIds) : \A a, b \in 1..Len(l) : a # b => l[a] # l[b]}

\* resolved download URLs: what download_pdf/download_stream look at
Url(scheme, suffix) == [kind |-> "url", scheme |-> scheme, suffix |-> suffix]
URL_PDF == Url("https", ".pdf")
URL_TGZ == Url("ftp", ".tar.gz")
EMPTY_HREF == [kind |-> "url", scheme |-> "", suffix |-> ""]
EndsWithTarGz(url) == url.suffix = ".tar.gz"

\* <link format=... href=...> elements of an oa.fcgi answer
Link(format, href) == [format |-> format, href |-> href]
OaResponses ==
    { [error |-> TRUE, links |-> <<>>],                     \* timeout / bad XML
      [error |-> FALSE, links |-> <<>>],                    \* <error> record
      [error |-> FALSE, links |-> <<Link("tgz", URL_TGZ)>>],
      [error |-> FALSE, links |-> <<Link("tgz", URL_TGZ), Link("pdf", URL_PDF)>>],
      [error |-> FALSE, links |-> <<Link("pdf", URL_TGZ), Link("pdf", URL_PDF)>>],
      [error |-> FALSE, links |-> <<Link("pdf", EMPTY_HREF)>>] }

\* file contents the servers may deliver
GOOD_PDF == Plain(PDF_HEADER, 4990, EOF_MARKER \o <<10>>)
OTHER_PDF == Plain(PDF_HEADER \o <<49>>, 4995, EOF_MARKER)
ERROR_PAGE == Plain(<<60, 104, 116, 109, 108, 62>>, 30, <<60, 47, 62>>)
EMPTY == Plain(<<>>, 0, <<>>)
TRUNCATED == Plain(PDF_HEADER, 100, <<>>)
TAR_WITH_PDF ==
    Tar(<<Member("readme", ".txt", ERROR_PAGE), Member("main", ".pdf", OTHER_PDF),
          Member("suppl", ".pdf", GOOD_PDF)>>)
TAR_BAD_PDF ==
    Tar(<<Member("cover", ".pdf", ERROR_PAGE), Member("main", ".pdf", GOOD_PDF)>>)
TAR_NO_PDF == Tar(<<Member("readme", ".txt", ERROR_PAGE)>>)

Payloads ==
    { GOOD_PDF, ERROR_PAGE,
      Gz(GOOD_PDF, TRUE), Gz(GOOD_PDF, FALSE), Gz(EMPTY, TRUE),
      Gz(TAR_WITH_PDF, TRUE), Gz(TAR_BAD_PDF, TRUE), Gz(TAR_NO_PDF, TRUE) }

\* download_stream either returns with the whole payload written, or raises
\* with no file (connect/status error) or a partial file (error mid-stream)
FetchOutcomes ==
    {[raised |-> FALSE, file |-> p] : p \in Payloads}
        \cup {[raised |-> TRUE, file |-> Absent], [raised |-> TRUE, file |-> TRUNCATED]}

\* -------------------------------------------------------------- file system
SavePath(pmcid) == <<pmcid, ".pdf">>
TempOf(path) == <<path[1], path[2] \o ".tmp">>
Paths == {SavePath(id) : id \in PmcIds} \cup {TempOf(SavePath(id)) : id \in PmcIds}
Remove(f, path) == [f EXCEPT ![path] = Absent]
RemoveIfExists(f, path) == IF f[path] # Absent THEN Remove(f, path) ELSE f
Exists(f, path) == f[path] # Absent

\* -------------------------------------------------------------------- state
VARIABLES
    pc,                 \* where the script is
    runs,               \* button presses so far
    fs,                 \* the output folder: path -> content or Absent
    downloaded_files,   \* st.session_state.downloaded_files
    max_pdfs,           \* number input "Max PDFs to download"
    pmc_ids,            \* result of search_pmc_articles
    i,                  \* index of the for loop (1-based)
    download_count,
    pdf_url, save_path, \* driver locals / download_pdf arguments
    retries, attempt,   \* download_pdf: budget and loop variable
    raw,                \* download_pdf: bytes read from the temp file
    result,             \* value download_pdf returned
    fetches,            \* history: download_stream calls for the current id
    total_fetches,      \* history: download_stream calls in this run
    waits,              \* history: time.sleep(1) calls for the current id
    fetched,            \* history: what download_stream left in the temp file
    log,                \* history: how each attempt of the current call ended
    resolver_calls,     \* history: ids passed to get_pdf_link_from_pmcid
    dl_calls,           \* history: ids passed to download_pdf
    notes,              \* history: notifications shown in this run
    oa,                 \* resolver called on its own: the oa.fcgi answer
    vfile, vio, vres    \* validator called on its own: file, I/O error, answer

vars == <<pc, runs, fs, downloaded_files, max_pdfs, pmc_ids, i, download_count,
          pdf_url, save_path, retries, attempt, raw, result, fetches,
          total_fetches, waits, fetched, log, resolver_calls, dl_calls, notes, oa, vfile, vio,
          vres>>

session == <<runs, downloaded_files, max_pdfs, pmc_ids, i, download_count>>
args == <<pdf_url, save_path, retries>>
counters == <<fetches, total_fetches, waits>>
trace == <<fetched, log>>
history == <<resolver_calls, dl_calls, notes>>
harness == <<oa, vfile, vio, vres>>

temp_file == TempOf(save_path)
NoPath == <<0, "">>

InitCommon ==
    /\ pc = "idle"
    /\ runs = 0
    /\ fs = [p \in Paths |-> Absent]
    /\ downloaded_files = <<>>
    /\ max_pdfs = 1
    /\ pmc_ids = <<>>
    /\ i = 1
    /\ download_count = 0
    /\ pdf_url = None
    /\ save_path = NoPath
    /\ attempt = 0
    /\ raw = None
    /\ result = FALSE
    /\ fetches = 0 /\ total_fetches = 0 /\ waits = 0
    /\ fetched = Absent /\ log = <<>>
    /\ resolver_calls = <<>>
    /\ dl_calls = <<>>
    /\ notes = <<>>
    /\ oa = None
    /\ vfile = Absent /\ vio = FALSE /\ vres = FALSE

Init == InitCommon /\ retries = DEFAULT_RETRIES

\* ----------------------------------------------------------------- resolver
\* (mutant) the last link with format "pdf" instead of the first
get_pdf_link_from_pmcid_last(resp) ==
    IF resp.error THEN None
    ELSE IF \E k \in 1..Len(resp.links) : resp.links[k].format = "pdf"
        THEN LET k == CHOOSE k \in 1..Len(resp.links) :
                        /\ resp.links[k].format = "pdf"
                        /\ \A j \in (k + 1)..Len(resp.links) : resp.links[j].format # "pdf"
             IN  resp.links[k].href
        ELSE None

\* get_pdf_link_from_pmcid on the answer `resp` of oa.fcgi; a link without
\* an href attribute carries href = None (the KeyError ends in return None)
get_pdf_link_from_pmcid(resp) ==
    IF resp.error THEN None                               \* except: return None
    ELSE IF \E k \in 1..Len(resp.links) : resp.links[k].format = "pdf"
        THEN LET k == CHOOSE k \in 1..Len(resp.links) :
                        /\ resp.links[k].format = "pdf"
                        /\ \A j \in 1..(k - 1) : resp.links[j].format # "pdf"
             IN  resp.links[k].href
        ELSE None                                         \* loop ends, no return

\* Python truthiness of the resolver's answer (None and "" are falsy)
UrlTruthy(u) == u # None /\ u # EMPTY_HREF

Note(kind, id) == [kind |-> kind, id |-> id]

\* ------------------------------------------------------------ download_pdf
\* for attempt in range(1, retries+1): entering the loop body, or leaving
\* the loop for `return False` when the range is empty or used up
EnterAttempt(n) ==
    IF n <= retries
    THEN /\ pc' = "fetch" /\ attempt' = n /\ result' = FALSE
    ELSE /\ pc' = "return" /\ attempt' = n /\ result' = FALSE

\* download_stream(pdf_url, temp_file)
Fetch ==
    /\ pc = "fetch"
    /\ \E out \in FetchOutcomes :
        /\ fs' = IF out.file = Absent THEN fs ELSE [fs EXCEPT ![temp_file] = out.file]
        /\ pc' = IF out.raised THEN "except" ELSE "read"
        /\ fetched' = out.file
    /\ fetches' = fetches + 1
    /\ total_fetches' = total_fetches + 1
    /\ UNCHANGED <<session, args, history, harness, attempt, raw, result, waits, log>>

\* raw = f.read(); the outer if of line 103
ReadTemp ==
    /\ pc = "read"
    /\ raw' = fs[temp_file]
    /\ pc' = IF EndsWithTarGz(pdf_url) \/ Slice(raw', 1, 2) = GZIP_MAGIC
             THEN "container" ELSE "write"
    /\ UNCHANGED <<session, args, history, harness, counters, trace, fs, attempt,
                   result>>

\* (mutant) after a failed extraction the gzip branch is not tried
Container_no_gzip_after_tar ==
    /\ pc = "container"
    /\ LET ex == extract_pdf_from_tar_gz(fs[temp_file], fs[save_path]) IN
       IF EndsWithTarGz(pdf_url) /\ ex.ret = "True"
       THEN /\ fs' = Remove([fs EXCEPT ![save_path] = ex.out], temp_file)
            /\ pc' = "validate_extracted"
       ELSE /\ fs' = fs
            /\ pc' = IF ~EndsWithTarGz(pdf_url) /\ Slice(raw, 1, 2) = GZIP_MAGIC
                     THEN "gunzip" ELSE "write"
    /\ UNCHANGED <<session, args, history, harness, counters, trace, attempt, raw,
                   result>>

\* lines 104-108: tar extraction when the URL ends in .tar.gz, else gzip
Container ==
    /\ pc = "container"
    /\ LET ex == extract_pdf_from_tar_gz(fs[temp_file], fs[save_path]) IN
       IF EndsWithTarGz(pdf_url) /\ ex.ret = "True"
       THEN /\ fs' = Remove([fs EXCEPT ![save_path] = ex.out], temp_file)
            /\ pc' = "validate_extracted"
       ELSE /\ fs' = fs
            /\ pc' = IF Slice(raw, 1, 2) = GZIP_MAGIC THEN "gunzip" ELSE "write"
    /\ UNCHANGED <<session, args, history, harness, counters, trace, attempt, raw,
                   result>>

\* lines 106-107: the extracted member is validated
ValidateExtracted ==
    /\ pc = "validate_extracted"
    /\ IF is_valid_pdf(fs[save_path], FALSE)
       THEN pc' = "return" /\ result' = TRUE /\ log' = Append(log, "valid_tar")
       ELSE pc' = "write" /\ result' = result /\ log' = log
    /\ UNCHANGED <<session, args, history, harness, counters, fs, attempt, raw,
                   fetched>>

\* (mutant) the decompressed bytes are dropped: raw stays compressed
Gunzip_keeps_compressed ==
    /\ pc = "gunzip"
    /\ LET decompressed == safe_gunzip(raw) IN
       IF Truthy(decompressed)
       THEN /\ raw' = raw
            /\ pc' = "write"
            /\ UNCHANGED <<fs, result, log>>
       ELSE /\ fs' = RemoveIfExists(fs, temp_file)
            /\ result' = FALSE
            /\ pc' = "return"
            /\ raw' = raw
            /\ log' = Append(log, "gunzip_failed")
    /\ UNCHANGED <<session, args, history, harness, counters, attempt, fetched>>

\* lines 109-115: raw gzip decompression
Gunzip ==
    /\ pc = "gunzip"
    /\ LET decompressed == safe_gunzip(raw) IN
       IF Truthy(decompressed)
       THEN /\ raw' = decompressed
            /\ pc' = "write"
            /\ UNCHANGED <<fs, result, log>>
       ELSE /\ fs' = RemoveIfExists(fs, temp_file)
            /\ result' = FALSE
            /\ pc' = "return"
            /\ raw' = raw
            /\ log' = Append(log, "gunzip_failed")
    /\ UNCHANGED <<session, args, history, harness, counters, attempt, fetched>>

\* (mutant) a file already present at save_path is kept instead of rewritten
WriteFinal_skips_existing ==
    /\ pc = "write"
    /\ fs' = IF Exists(fs, save_path)
             THEN RemoveIfExists(fs, temp_file)
             ELSE RemoveIfExists([fs EXCEPT ![save_path] = raw], temp_file)
    /\ pc' = "validate"
    /\ UNCHANGED <<session, args, history, harness, counters, trace, attempt, raw,
                   result>>

\* (mutant) the temp file is not removed after the write
WriteFinal_keeps_temp ==
    /\ pc = "write"
    /\ fs' = [fs EXCEPT ![save_path] = raw]
    /\ pc' = "validate"
    /\ UNCHANGED <<session, args, history, harness, counters, trace, attempt, raw,
                   result>>

\* lines 117-120: write raw to save_path, remove the temp file
WriteFinal ==
    /\ pc = "write"
    /\ fs' = RemoveIfExists([fs EXCEPT ![save_path] = raw], temp_file)
    /\ pc' = "validate"
    /\ UNCHANGED <<session, args, history, harness, counters, trace, attempt, raw,
                   result>>

\* (mutant) the written file is accepted without the validator's verdict
Validate_accepts_anything ==
    /\ pc = "validate"
    /\ pc' = "return" /\ result' = TRUE
    /\ log' = Append(log, IF raw = fetched THEN "valid_direct" ELSE "valid_gunzip")
    /\ UNCHANGED <<session, args, history, harness, counters, fs, attempt, raw,
                   fetched>>

\* lines 121-122
Validate ==
    /\ pc = "validate"
    /\ IF is_valid_pdf(fs[save_path], FALSE)
       THEN /\ pc' = "return" /\ result' = TRUE
            /\ log' = Append(log, IF raw = fetched THEN "valid_direct" ELSE "valid_gunzip")
       ELSE /\ pc' = "sleep" /\ result' = result
            /\ log' = Append(log, "invalid")
    /\ UNCHANGED <<session, args, history, harness, counters, fs, attempt, raw,
                   fetched>>

\* (mutant) the except clause leaves the temp file behind
Except_keeps_temp ==
    /\ pc = "except"
    /\ log' = Append(log, "raised")
    /\ pc' = "sleep"
    /\ UNCHANGED <<session, args, history, harness, counters, fs, attempt, raw,
                   result, fetched>>

\* lines 123-125: the except clause
Except ==
    /\ pc = "except"
    /\ log' = Append(log, "raised")
    /\ fs' = RemoveIfExists(fs, temp_file)
    /\ pc' = "sleep"
    /\ UNCHANGED <<session, args, history, harness, counters, attempt, raw, result,
                   fetched>>

\* line 126, then the next iteration of the for loop or line 127
Sleep ==
    /\ pc = "sleep"
    /\ waits' = waits + 1
    /\ EnterAttempt(attempt + 1)
    /\ UNCHANGED <<session, args, history, harness, trace, fs, raw, fetches,
                   total_fetches>>

\* ---------------------------------------------------------- pipeline driver
\* (mutant) the list of the previous run is kept
ClearDownloadedFiles_missing == downloaded_files' = downloaded_files

\* line 147: st.session_state.downloaded_files = []
ClearDownloadedFiles == downloaded_files' = <<>>

\* the button is pressed with a drug name: lines 146-152
Start ==
    /\ pc = "idle"
    /\ runs < MaxRuns
    /\ runs' = runs + 1
    /\ max_pdfs' \in 1..MaxPdfsInput
    /\ ClearDownloadedFiles
    /\ pmc_ids' = <<>> /\ i' = 1 /\ download_count' = 0
    /\ pdf_url' = None /\ save_path' = NoPath /\ attempt' = 0
    /\ raw' = None /\ result' = FALSE
    /\ fetches' = 0 /\ total_fetches' = 0 /\ waits' = 0
    /\ fetched' = Absent /\ log' = <<>>
    /\ resolver_calls' = <<>> /\ dl_calls' = <<>> /\ notes' = <<>>
    /\ pc' = "search"
    /\ UNCHANGED <<harness, fs, retries>>

\* line 153: the search returns a ranked id list, or raises and ends the run
Search ==
    /\ pc = "search"
    /\ \/ /\ pmc_ids' \in SearchResults
          /\ pc' = "loop"
          /\ notes' = notes
       \/ /\ pmc_ids' = pmc_ids
          /\ pc' = "idle"
          /\ notes' = Append(notes, Note("exception", 0))
    /\ UNCHANGED <<args, harness, counters, trace, runs, fs, downloaded_files,
                   max_pdfs, i, download_count, attempt, raw, result, resolver_calls,
                   dl_calls>>

\* (mutant) the break test is off by one
LimitReached_off_by_one == download_count > max_pdfs

\* line 159: if download_count >= max_pdfs: break
LimitReached == download_count >= max_pdfs

\* lines 158-160: the loop is left at the end of the list or at the limit
LoopExit ==
    /\ pc = "loop"
    /\ i > Len(pmc_ids) \/ LimitReached
    /\ pc' = "summary"
    /\ UNCHANGED <<session, args, history, harness, counters, trace, fs, attempt,
                   raw, result>>

\* (mutant) an id without a PDF link ends the loop
SkipId_aborts == i' = i /\ pc' = "summary"

\* lines 162-163: if not pdf_url: continue
SkipId == i' = i + 1 /\ pc' = "loop"

\* (mutant) the attempt counter carries on from the fetches of earlier ids
StartDownload_shared_budget == EnterAttempt(total_fetches + 1)

\* line 166 entering line 96: the call starts its own range(1, retries+1)
StartDownload == EnterAttempt(1)

\* lines 161-166: resolve the id, skip it or call download_pdf
Resolve ==
    /\ pc = "loop"
    /\ i <= Len(pmc_ids) /\ ~LimitReached
    /\ \E resp \in OaResponses : pdf_url' = get_pdf_link_from_pmcid(resp)
    /\ resolver_calls' = Append(resolver_calls, pmc_ids[i])
    /\ fetches' = 0 /\ waits' = 0
    /\ IF ~UrlTruthy(pdf_url')
       THEN /\ SkipId
            /\ UNCHANGED <<save_path, attempt, result, dl_calls>>
       ELSE /\ save_path' = SavePath(pmc_ids[i])
            /\ dl_calls' = Append(dl_calls, pmc_ids[i])
            /\ StartDownload
            /\ i' = i
    /\ UNCHANGED <<harness, trace, runs, fs, downloaded_files, max_pdfs, pmc_ids,
                   download_count, retries, raw, total_fetches, notes>>

\* lines 166-171: download_pdf has returned
AfterDownload ==
    /\ pc = "return"
    /\ IF result
       THEN /\ download_count' = download_count + 1
            /\ downloaded_files' = Append(downloaded_files, save_path)
            /\ notes' = Append(notes, Note("success", pmc_ids[i]))
       ELSE /\ notes' = Append(notes, Note("warning", pmc_ids[i]))
            /\ UNCHANGED <<download_count, downloaded_files>>
    /\ i' = i + 1
    /\ raw' = None /\ attempt' = 0           \* download_pdf's locals are gone
    /\ fetched' = Absent /\ log' = <<>>
    /\ pc' = "loop"
    /\ UNCHANGED <<args, harness, counters, runs, fs, max_pdfs, pmc_ids, result,
                   resolver_calls, dl_calls>>

\* (mutant) the success summary is shown whatever the count
SummaryNote_always_success == Note("summary", download_count)

\* lines 173-176: st.error("No valid PDFs downloaded.") or the success
\* summary carrying download_count
SummaryNote ==
    IF download_count = 0 THEN Note("error", 0) ELSE Note("summary", download_count)

\* lines 173-176
Summary ==
    /\ pc = "summary"
    /\ notes' = Append(notes, SummaryNote)
    /\ pc' = "idle"
    /\ UNCHANGED <<session, args, harness, counters, trace, fs, attempt, raw,
                   result, resolver_calls, dl_calls>>

Program ==
    \/ Search \/ LoopExit \/ Resolve \/ AfterDownload \/ Summary
    \/ Fetch \/ ReadTemp \/ Container \/ ValidateExtracted \/ Gunzip
    \/ WriteFinal \/ Validate \/ Except \/ Sleep

Next == Start \/ Program

Spec == Init /\ [][Next]_vars

\* download_pdf called with any retry budget
InitRetries == InitCommon /\ retries \in 0..MaxRetriesArg
SpecRetries == InitRetries /\ [][Next]_vars

\* the script's own steps are always taken; pressing the button is the user's
LiveSpec == Spec /\ WF_vars(Program)

\* ------------------------------------------------ the validator on its own
TestHeads ==
    { PDF_HEADER, <<37, 80, 68, 70>>, <<37, 80, 68, 70, 95>>, <<32>> \o PDF_HEADER, <<>> }
TestPads == {0, 4984, 4985, 4990, 4995}
TestTails ==
    { EOF_MARKER, EOF_MARKER \o <<10>>, EOF_MARKER \o <<13, 10, 32, 32, 10>>,
      EOF_MARKER \o <<13, 10, 32, 32, 32, 10>>, <<37, 69, 79, 70, 10>>, <<>> }
TestFiles ==
    {Plain(h, p, t) : h \in TestHeads, p \in TestPads, t \in TestTails} \cup {Absent}

CallValidator ==
    /\ pc = "idle"
    /\ \E f \in TestFiles, e \in BOOLEAN :
        /\ vfile' = f /\ vio' = e
        /\ vres' = is_valid_pdf(f, e)
    /\ pc' = "validated"
    /\ UNCHANGED <<session, args, counters, trace, history, fs, attempt, raw,
                   result, oa>>

ForgetValidator ==
    /\ pc = "validated"
    /\ vfile' = Absent /\ vio' = FALSE /\ vres' = FALSE
    /\ pc' = "idle"
    /\ UNCHANGED <<session, args, counters, trace, history, fs, attempt, raw,
                   result, oa>>

NextValidator == CallValidator \/ ForgetValidator
SpecValidator == Init /\ [][NextValidator]_vars

\* ------------------------------------------------- the resolver on its own
TestLinks ==
    {Link(f, h) : f \in {"pdf", "tgz", "PDF"}, h \in {URL_PDF, URL_TGZ, EMPTY_HREF, None}}
TestOaResponses ==
    {[error |-> e, links |-> l] :
        e \in BOOLEAN,
        l \in {<<>>} \cup {<<a>> : a \in TestLinks}
                \cup {<<a, b>> : a \in TestLinks, b \in TestLinks}}

CallResolver ==
    /\ pc = "idle"
    /\ \E resp \in TestOaResponses :
        /\ oa' = resp
        /\ pdf_url' = get_pdf_link_from_pmcid(resp)
    /\ pc' = "resolved"
    /\ UNCHANGED <<session, counters, trace, history, fs, save_path, retries,
                   attempt, raw, result, vfile, vio, vres>>

ForgetResolver ==
    /\ pc = "resolved"
    /\ oa' = None /\ pdf_url' = None
    /\ pc' = "idle"
    /\ UNCHANGED <<session, counters, trace, history, fs, save_path, retries,
                   attempt, raw, result, vfile, vio, vres>>

NextResolver == CallResolver \/ ForgetResolver
SpecResolver == Init /\ [][NextResolver]_vars

TypeOK ==
    /\ pc \in {"idle", "search", "loop", "summary", "fetch", "read", "container",
               "validate_extracted", "gunzip", "write", "validate", "except",
               "sleep", "return", "validated", "resolved"}
    /\ download_count \in 0..MaxPdfsInput


\* =================================================================== claims
\* What the specification calls a structurally valid PDF, stated on the bytes.
StructurallyValid(file) ==
    /\ file # Absent
    /\ Size(file) >= 5000
    /\ \A j \in 1..5 : ByteAt(file, j) = PDF_HEADER[j]
    /\ \E p \in (Size(file) - 9)..(Size(file) - 4) :
          \A j \in 0..4 : ByteAt(file, p + j) = EOF_MARKER[j + 1]

StartsWithGzipMagic(file) ==
    file # Absent /\ Size(file) >= 2 /\ ByteAt(file, 1) = 31 /\ ByteAt(file, 2) = 139

InCall ==
    pc \in {"fetch", "read", "container", "validate_extracted", "gunzip", "write",
            "validate", "except", "sleep"}

LastOf(seq) == seq[Len(seq)]

\* C1: when every fetch of a download_pdf(url, save_path, retries=N) call
\* raised, the call has made exactly N fetches when it returns, it returns
\* False, and save_path + ".tmp" does not exist at that moment.
C1_AllFetchesRaise ==
    (pc = "return" /\ \A k \in 1..Len(log) : log[k] = "raised")
        => /\ result = FALSE
           /\ fetches = retries
           /\ Len(log) = retries
           /\ ~Exists(fs, temp_file)

\* three failed fetches, the last of which had left a partial temp file
C1_Witness ==
    /\ pc = "return" /\ retries = 3
    /\ log = <<"raised", "raised", "raised">>
    /\ fetched = TRUNCATED

\* C2: a path enters downloaded_files only when download_pdf has just
\* returned True for it, download_pdf returns True only with a structurally
\* valid PDF at save_path, and so every acquired path holds one - whichever
\* of the three routes (direct, gunzip, tar member) wrote it.
C2_AcquiredOnlyIfValid ==
    /\ [](\A k \in 1..Len(downloaded_files) :
            /\ StructurallyValid(fs[downloaded_files[k]])
            /\ \E n \in 1..Len(notes) :
                  notes[n] = Note("success", downloaded_files[k][1]))
    /\ []((pc = "return" /\ result) => StructurallyValid(fs[save_path]))
    /\ [][downloaded_files' # downloaded_files =>
            \/ pc = "idle" /\ downloaded_files' = <<>>
            \/ /\ pc = "return" /\ result
               /\ downloaded_files' = Append(downloaded_files, save_path)]_vars

\* a gunzip-route success returning while a tar-extracted file is acquired
C2_Witness ==
    /\ pc = "return" /\ result /\ LastOf(log) = "valid_gunzip"
    /\ Len(downloaded_files) = 1
    /\ fs[downloaded_files[1]] = OTHER_PDF

\* C3: a gzip-magic payload that fails to decompress ends the attempt, and
\* the call goes on to a new download while attempts remain: it returns
\* False after such a failure only once `retries` fetches were made.
C3_GunzipFailureIsRetried ==
    (pc = "return" /\ Len(log) > 0 /\ LastOf(log) = "gunzip_failed")
        => fetches = retries

\* C8: is_valid_pdf answers True exactly for an existing file of at least
\* 5000 bytes that starts with %PDF- and has %%EOF within its last 10 bytes,
\* read without an I/O error; otherwise it answers False.
C8_ValidatorContract ==
    pc = "validated" => vres = (StructurallyValid(vfile) /\ ~vio)

\* accepted at the limits: exactly 5000 bytes, marker at the start of the
\* last 10 bytes
C8_Witness ==
    /\ pc = "validated" /\ vres
    /\ Size(vfile) = 5000
    /\ ByteAt(vfile, 4991) = 37 /\ ByteAt(vfile, 4995) = 70

\* C4: download_count never exceeds max_pdfs; once it equals max_pdfs the
\* run calls neither the resolver nor download_pdf (nor fetches anything)
\* again; and the loop is left only at the limit or at the end of the list.
C4_StopsAtLimit ==
    /\ [](download_count <= max_pdfs)
    /\ [][(download_count >= max_pdfs /\ pc # "idle") =>
            /\ resolver_calls' = resolver_calls
            /\ dl_calls' = dl_calls
            /\ total_fetches' = total_fetches]_vars
    /\ [](pc = "summary" => (download_count = max_pdfs \/ i > Len(pmc_ids)))

\* the limit ended the loop while ids of the search result were still unvisited
C4_Witness ==
    /\ pc = "summary" /\ download_count = max_pdfs
    /\ i <= Len(pmc_ids)
    /\ Len(resolver_calls) < Len(pmc_ids)

\* C5: the driver visits the ids in search order, resolving each visited id
\* exactly once; download_pdf is called only for ids with a resolved URL;
\* after a failed id (no URL, or download_pdf returned False) the next id is
\* still visited, so the loop ends only with every id visited or the limit
\* reached; and every run that got its search result reaches the summary.
C5_FailuresDoNotAbort ==
    /\ [](/\ Len(resolver_calls) <= Len(pmc_ids)
          /\ resolver_calls = SubSeq(pmc_ids, 1, Len(resolver_calls))
          /\ pc = "loop" => Len(resolver_calls) = i - 1)
    /\ [][dl_calls' # dl_calls /\ pc # "idle" =>
            /\ UrlTruthy(pdf_url')
            /\ dl_calls' = Append(dl_calls, pmc_ids[i])
            /\ resolver_calls' = Append(resolver_calls, pmc_ids[i])]_vars
    /\ [][(pc = "loop" /\ resolver_calls' # resolver_calls /\ ~UrlTruthy(pdf_url'))
            => (dl_calls' = dl_calls /\ total_fetches' = total_fetches
                /\ pc' = "loop" /\ i' = i + 1)]_vars
    /\ [][(pc = "return" /\ ~result) => (pc' = "loop" /\ i' = i + 1)]_vars
    /\ []((pc = "loop" /\ i <= Len(pmc_ids) /\ download_count < max_pdfs)
            => ENABLED Resolve)
    /\ [](pc = "summary" =>
            (Len(resolver_calls) = Len(pmc_ids) \/ download_count = max_pdfs))
    /\ (pc = "loop") ~> (pc = "idle" /\ Len(notes) > 0
                         /\ LastOf(notes).kind \in {"error", "summary"})

\* a run whose first id had no PDF link and whose second id failed to
\* download, at its summary
C5_Witness ==
    /\ pc = "summary" /\ Len(pmc_ids) = 2
    /\ resolver_calls = pmc_ids
    /\ dl_calls = <<pmc_ids[2]>>
    /\ notes = <<Note("warning", pmc_ids[2])>>
    /\ pmc_ids[1] > pmc_ids[2]

\* the attempt that just ended fetched a gzip-magic payload from a URL that
\* does not end in .tar.gz
GzipCase ==
    ~EndsWithTarGz(pdf_url) /\ Len(log) > 0 /\ LastOf(log) # "raised"
        /\ StartsWithGzipMagic(fetched)

\* C6: for a URL not ending in .tar.gz and a payload with the gzip magic:
\* if it decompresses to a valid PDF the call returns True with exactly the
\* decompressed bytes at save_path; if it does not decompress the call
\* returns False (a normal return) with no temp file; neither case leads to
\* a retry.
C6_GzipUnwrap ==
    /\ (pc = "return" /\ GzipCase /\ fetched.kind = "gzip" /\ fetched.ok
            /\ StructurallyValid(fetched.inner))
          => /\ result = TRUE
             /\ fs[save_path] = fetched.inner
             /\ fs[save_path] # fetched
             /\ ~Exists(fs, temp_file)
    /\ (pc = "return" /\ GzipCase /\ ~(fetched.kind = "gzip" /\ fetched.ok))
          => /\ result = FALSE
             /\ ~Exists(fs, temp_file)
    /\ (pc = "sleep" /\ GzipCase)
          => /\ fetched.kind = "gzip" /\ fetched.ok
             /\ ~StructurallyValid(fetched.inner)

\* a gzip-wrapped PDF accepted on a retry, over an error page left by the
\* first attempt
C6_Witness ==
    /\ pc = "return" /\ result /\ ~EndsWithTarGz(pdf_url)
    /\ fetched = Gz(GOOD_PDF, TRUE)
    /\ fs[save_path] = GOOD_PDF
    /\ log = <<"invalid", "valid_gunzip">>

\* the fetched file is a readable tar-gzip archive / has a ".pdf" member /
\* its first ".pdf" member in archive order
IsArchive(file) ==
    file # Absent /\ file.kind = "gzip" /\ file.ok /\ file.inner.kind = "tar"
HasPdfMember(file) ==
    IsArchive(file) /\ \E k \in 1..Len(file.inner.members) :
                          file.inner.members[k].ext = ".pdf"
IsFirstPdfMember(file, k) ==
    /\ k \in 1..Len(file.inner.members)
    /\ file.inner.members[k].ext = ".pdf"
    /\ \A j \in 1..(k - 1) : file.inner.members[j].ext # ".pdf"

\* C7: for a URL ending in .tar.gz: the first ".pdf" member of the fetched
\* archive is what lands at save_path, with the temp file removed, and the
\* call returns True when that member is a valid PDF; without a ".pdf"
\* member, or with an archive that cannot be opened, extraction changes
\* nothing and the attempt goes on to the gzip / plain-write checks; and
\* every call ends by returning a boolean.
C7_TarExtraction ==
    /\ [](pc = "validate_extracted" =>
            /\ EndsWithTarGz(pdf_url) /\ HasPdfMember(fetched)
            /\ \E k \in 1..Len(fetched.inner.members) :
                  /\ IsFirstPdfMember(fetched, k)
                  /\ fs[save_path] = fetched.inner.members[k].data
            /\ ~Exists(fs, temp_file))
    /\ []((pc = "return" /\ EndsWithTarGz(pdf_url) /\ HasPdfMember(fetched)
             /\ \E k \in 1..Len(fetched.inner.members) :
                   /\ IsFirstPdfMember(fetched, k)
                   /\ StructurallyValid(fetched.inner.members[k].data))
            => /\ result = TRUE
               /\ \E k \in 1..Len(fetched.inner.members) :
                     /\ IsFirstPdfMember(fetched, k)
                     /\ fs[save_path] = fetched.inner.members[k].data
               /\ ~Exists(fs, temp_file))
    /\ [][(pc = "container" /\ EndsWithTarGz(pdf_url) /\ ~HasPdfMember(fetched))
            => (pc' \in {"gunzip", "write"} /\ fs' = fs)]_vars
    /\ [](pc = "return" => result \in BOOLEAN)
    /\ InCall ~> (pc = "return")

\* the first ".pdf" member of the archive, not the later one, was extracted
\* and accepted
C7_Witness ==
    /\ pc = "return" /\ result /\ EndsWithTarGz(pdf_url)
    /\ fetched = Gz(TAR_WITH_PDF, TRUE)
    /\ fs[save_path] = OTHER_PDF
    /\ LastOf(log) = "valid_tar"

\* C9: an attempt whose written file fails validation is followed by a new
\* fetch while attempts remain; the first attempt that validates returns
\* True at once; and when no attempt validates the call returns False after
\* exactly `retries` fetches.
C9_ValidationFailureConsumesRetry ==
    /\ (pc = "sleep" /\ LastOf(log) = "invalid") => fetches = attempt
    /\ (pc = "fetch" /\ attempt > 1) => (fetches = attempt - 1 /\ attempt <= retries)
    /\ (pc = "return" /\ result)
          => /\ fetches = Len(log)
             /\ \A k \in 1..(Len(log) - 1) : log[k] \in {"raised", "invalid"}
    /\ (pc = "return" /\ ~result) => fetches = retries

\* C10: every call of download_pdf starts its own budget: the first fetch
\* for an id is attempt 1 whatever earlier ids consumed, a returned call has
\* made between 1 and 3 fetches, an id without a resolved URL has made none,
\* no id is downloaded twice, and the run's fetches are at most 3 per id
\* with a resolved URL.
C10_FreshBudgetPerId ==
    /\ pc = "fetch" => (attempt = fetches + 1 /\ attempt <= 3)
    /\ pc = "return" => (fetches >= 1 /\ fetches <= 3)
    /\ (pc = "loop" /\ Len(resolver_calls) > 0
          /\ (Len(dl_calls) = 0 \/ LastOf(dl_calls) # LastOf(resolver_calls)))
          => fetches = 0
    /\ \A a, b \in 1..Len(dl_calls) : a # b => dl_calls[a] # dl_calls[b]
    /\ Len(dl_calls) <= Len(resolver_calls)
    /\ total_fetches <= 3 * Len(dl_calls)

\* the second id gets all three attempts after the first id used up its own
C10_Witness ==
    /\ pc = "return" /\ Len(dl_calls) = 2
    /\ fetches = 3 /\ total_fetches = 6

\* C11: get_pdf_link_from_pmcid answers with the href of the first link, in
\* document order, whose format is exactly "pdf"; it answers None when there
\* is no such link and when the request or the XML parse failed; it has an
\* answer for every response.
C11_ResolverContract ==
    pc = "resolved" =>
        IF oa.error THEN pdf_url = None
        ELSE IF \A k \in 1..Len(oa.links) : oa.links[k].format # "pdf"
            THEN pdf_url = None
        ELSE \E k \in 1..Len(oa.links) :
                /\ oa.links[k].format = "pdf"
                /\ \A j \in 1..(k - 1) : oa.links[j].format # "pdf"
                /\ pdf_url = oa.links[k].href

\* two "pdf" links with different hrefs: the first one's href is the answer
C11_Witness ==
    /\ pc = "resolved" /\ ~oa.error
    /\ oa.links = <<Link("pdf", URL_TGZ), Link("pdf", URL_PDF)>>
    /\ pdf_url = URL_TGZ

\* the per-id notifications (st.success / st.warning of lines 169, 171) about `id`
NotesAbout(id) ==
    {n \in 1..Len(notes) : notes[n].id = id /\ notes[n].kind \in {"success", "warning"}}

\* C12: between two ids and at the end of the loop, every id the loop has
\* visited has exactly one per-id notification, a success notification iff its
\* acquisition returned true and a skip/warning notification otherwise, and
\* the number of success notifications equals download_count.
C12_OneNotificationPerVisitedId ==
    pc \in {"loop", "summary"} =>
        /\ \A k \in 1..Len(resolver_calls) :
                Cardinality(NotesAbout(resolver_calls[k])) = 1
        /\ Cardinality({n \in 1..Len(notes) : notes[n].kind = "success"}) = download_count

\* the end-of-run summaries among the notifications of the current run
SummaryNotes == {n \in 1..Len(notes) : notes[n].kind \in {"error", "summary"}}

\* the current run has ended and its search returned
RunCompleted ==
    /\ pc = "idle" /\ runs > 0
    /\ \A n \in 1..Len(notes) : notes[n].kind # "exception"

\* C13: a run whose search returned ends with exactly one end-of-run summary,
\* its last notification: the total-failure message iff download_count = 0,
\* the success summary carrying the count iff download_count >= 1; no summary
\* is shown before the run has ended.
C13_ExactlyOneSummary ==
    IF RunCompleted
    THEN /\ SummaryNotes = {Len(notes)}
         /\ LastOf(notes).kind = "error" <=> download_count = 0
         /\ LastOf(notes).kind = "summary" <=>
                (download_count >= 1 /\ LastOf(notes).id = download_count)
    ELSE SummaryNotes = {}

\* a run of two ids, one acquired and one not, ends with the summary for 1
C13_Witness ==
    /\ RunCompleted
    /\ Len(resolver_calls) = 2 /\ download_count = 1
    /\ LastOf(notes) = Note("summary", 1)
    /\ \E n \in 1..Len(notes) : notes[n].kind = "warning"

\* in the current attempt a ".pdf" member was extracted to save_path and the
\* validator has rejected it (an accepted member ends the call at once)
ExtractedRejected ==
    /\ pc \in {"write", "validate", "sleep"}
    /\ EndsWithTarGz(pdf_url) /\ HasPdfMember(fetched)

\* C14: once the validator has rejected the file at save_path, that file stays
\* as it was when it was validated until the attempt ends: the rejected
\* member extracted from an archive is still at save_path, and so are the
\* bytes rejected on the plain and gzip routes.
C14_RejectedFileLeftAsIs ==
    /\ [](ExtractedRejected =>
            \E k \in 1..Len(fetched.inner.members) :
                /\ IsFirstPdfMember(fetched, k)
                /\ fs[save_path] = fetched.inner.members[k].data)
    /\ []((pc = "sleep" /\ LastOf(log) = "invalid" /\ ~ExtractedRejected)
            => fs[save_path] = raw)
    /\ [][(pc \in {"validate", "validate_extracted"}
             /\ ~StructurallyValid(fs[save_path]))
            => fs'[save_path] = fs[save_path]]_vars

\* the URL ends in .tar.gz but the fetched bytes yield no extracted member
ExtractionFailed == EndsWithTarGz(pdf_url) /\ ~HasPdfMember(fetched)

\* C15: for a URL ending in .tar.gz whose extraction fails, the attempt goes
\* on to the gzip magic test with nothing changed on disk: with the magic and
\* a successful decompression the decompressed bytes are written to save_path
\* and validated; with the magic and a failed decompression the attempt fails
\* with the temp file removed; without the magic the fetched bytes are written
\* unchanged and validated, so that a bare valid PDF (or a gzip of one) served
\* from such a URL makes the call return True.
C15_TarFailureFallsThrough ==
    /\ [][(pc = "container" /\ ExtractionFailed)
            => /\ fs' = fs
               /\ pc' = IF StartsWithGzipMagic(fetched) THEN "gunzip" ELSE "write"]_vars
    /\ [][(pc = "gunzip" /\ ExtractionFailed)
            => IF fetched.ok /\ Size(fetched.inner) > 0
               THEN pc' = "write" /\ raw' = fetched.inner /\ fs' = fs
               ELSE pc' = "return" /\ result' = FALSE /\ ~Exists(fs', temp_file)]_vars
    /\ []((pc = "validate" /\ ExtractionFailed)
            => /\ fs[save_path] = IF StartsWithGzipMagic(fetched)
                                  THEN fetched.inner ELSE fetched
               /\ ~Exists(fs, temp_file))
    /\ []((pc = "return" /\ ExtractionFailed /\ StructurallyValid(fetched))
            => result = TRUE /\ fs[save_path] = fetched /\ ~Exists(fs, temp_file))
    /\ []((pc = "return" /\ ExtractionFailed /\ StartsWithGzipMagic(fetched)
             /\ fetched.ok /\ StructurallyValid(fetched.inner))
            => result = TRUE /\ fs[save_path] = fetched.inner)

\* a bare valid PDF served from a URL ending in .tar.gz was acquired
C15_Witness ==
    /\ pc = "return" /\ result
    /\ EndsWithTarGz(pdf_url)
    /\ fetched = GOOD_PDF /\ fs[save_path] = GOOD_PDF
    /\ ~Exists(fs, temp_file)

\* C16: waits happen only between attempts: inside attempt n of a call n - 1
\* waits have been made (none before the first), and a call that returns
\* after k fetch attempts has made exactly k - 1 waits (none after the last).
C16_WaitsOnlyBetweenAttempts ==
    /\ (InCall /\ pc # "sleep") => waits = attempt - 1
    /\ (pc = "return" /\ fetches >= 1) => waits = fetches - 1

\* every temp path a call can use
TempPaths == {TempOf(SavePath(id)) : id \in PmcIds}

\* C17: a temp file exists only inside an attempt, after its fetch and before
\* the attempt's end, and it is the current call's temp file; in particular
\* no temp file exists when download_pdf returns, on any path, nor between
\* calls.
C17_TempOnlyInsideAttempt ==
    /\ \A p \in TempPaths :
          Exists(fs, p) =>
              /\ p = temp_file
              /\ pc \in {"read", "container", "gunzip", "write", "except"}
    /\ pc = "return" => ~Exists(fs, temp_file)

\* a call that saw a raising fetch, a rejected file and then an accepted
\* archive member returns with no temp file anywhere
C17_Witness ==
    /\ pc = "return" /\ result
    /\ log = <<"raised", "invalid", "valid_tar">>
    /\ \A p \in TempPaths : ~Exists(fs, p)

\* `file` is what the bytes fetched in the current attempt yield: the bytes
\* themselves, their gzip decompression, or the first ".pdf" member of the
\* archive they hold
DerivedFromFetch(file) ==
    /\ fetched # Absent
    /\ \/ file = fetched
       \/ fetched.kind = "gzip" /\ fetched.ok /\ file = fetched.inner
       \/ HasPdfMember(fetched) /\ \E k \in 1..Len(fetched.inner.members) :
                                      /\ IsFirstPdfMember(fetched, k)
                                      /\ file = fetched.inner.members[k].data

\* C18: every validation is of a file put at save_path in the same attempt
\* from the bytes that attempt fetched (the fetch of that attempt returned),
\* and a call returns True only with such a file, valid, at save_path: a file
\* that was at save_path before is never what gets accepted.
C18_ValidatesOnlyFreshFile ==
    /\ pc \in {"validate", "validate_extracted"} =>
          /\ fetches = attempt /\ Len(log) = attempt - 1
          /\ DerivedFromFetch(fs[save_path])
    /\ (pc = "return" /\ result) =>
          /\ fetches = attempt /\ Len(log) = attempt
          /\ DerivedFromFetch(fs[save_path])
          /\ StructurallyValid(fs[save_path])

\* a valid PDF acquired by an earlier run is at save_path, every fetch of the
\* current call failed or brought no PDF, and the call returned False
C18_Witness ==
    /\ pc = "return" /\ ~result /\ fetches >= 1
    /\ runs = 2
    /\ StructurallyValid(fs[save_path])

\* the current run has ended because its search raised
SearchFailed ==
    pc = "idle" /\ runs > 0 /\ Len(notes) > 0 /\ LastOf(notes).kind = "exception"

\* C19: the acquired list is emptied when a run starts, before the search,
\* and afterwards only grows by the save_path of a download_pdf call that has
\* just returned True; so its length equals download_count in every state,
\* its entries follow the rank order of the search result without duplicates,
\* and after a failed search it is empty.
C19_AcquiredListDiscipline ==
    /\ [][(pc = "idle" /\ pc' = "search") => downloaded_files' = <<>>]_vars
    /\ [][downloaded_files' # downloaded_files =>
            \/ pc = "idle" /\ pc' = "search" /\ downloaded_files' = <<>>
            \/ /\ pc = "return" /\ result /\ pc' = "loop"
               /\ save_path = SavePath(pmc_ids[i])
               /\ downloaded_files' = Append(downloaded_files, save_path)]_vars
    /\ [](Len(downloaded_files) = download_count)
    /\ [](\A k \in 1..Len(downloaded_files) :
            \E p \in 1..Len(pmc_ids) :
                /\ downloaded_files[k] = SavePath(pmc_ids[p])
                /\ \A l \in (k + 1)..Len(downloaded_files) :
                      /\ downloaded_files[l] # downloaded_files[k]
                      /\ \E q \in (p + 1)..Len(pmc_ids) :
                            downloaded_files[l] = SavePath(pmc_ids[q]))
    /\ []((pc = "search" \/ SearchFailed) => downloaded_files = <<>>)

\* a run whose search raised, after a run that had acquired a file: the list
\* is empty although the earlier file is still on disk
C19_Witness ==
    /\ SearchFailed /\ runs = 2
    /\ downloaded_files = <<>>
    /\ \E id \in PmcIds : StructurallyValid(fs[SavePath(id)])
====
